---- MODULE Spec2Model ----
(***************************************************************************)
(* Model of scripts/find-unreferenced-yaml.py: the kustomization.yaml      *)
(* reference extractor (KustomizationParser), the unreferenced-file finder *)
(* and classifier (UnreferencedFileAnalyzer) and the command-line driver   *)
(* (main).                                                                 *)
(*                                                                         *)
(* Text is modelled as a sequence of tokens.  A token stands for the       *)
(* literal piece of text it spells ("http", "://", "./", ".yaml", ...);    *)
(* substring tests of the program become contiguous-subsequence tests and  *)
(* prefix tests become prefix tests on the token sequence.                 *)
(***************************************************************************)
EXTENDS Integers, Sequences, FiniteSets, TLC

VARIABLES
    kustomization,  \* ParserSpec: the kustomization.yaml handed to the parser
    referenced,     \* ParserSpec: the set get_referenced_files returned
    parser_stderr,  \* ParserSpec: get_referenced_files printed a diagnostic
    ppc,            \* ParserSpec: "start" | "done"
    candidate,      \* AnalyzerSpec: the file handed to analyze_file
    analysis,       \* AnalyzerSpec: the AnalysisResult it returned
    apc,            \* AnalyzerSpec: "start" | "done"
    fs,             \* Spec: the file system under the project root
    pc,             \* Spec: where main is
    stdout,         \* Spec: the lines written to standard output
    stderr,         \* Spec: the lines written to the diagnostic stream
    exit_code,      \* Spec: the exit status (-1: still running)
    unreferenced_files,  \* Spec: main's list of unreferenced files
    results,        \* Spec: main's list of AnalysisResults
    scanned         \* Spec: find_all_unreferenced has been called

pvars == <<kustomization, referenced, parser_stderr, ppc>>
avars == <<candidate, analysis, apc>>
mvars == <<fs, pc, stdout, stderr, exit_code, unreferenced_files, results, scanned>>
vars == <<pvars, avars, mvars>>

----------------------------------------------------------------------------
(* Bounds of the model.                                                    *)

\* Size of a structured document: a list costs 1, and each of its items 1 plus
\* the tokens of its string (2 for an item that holds no string).
MaxDocSize == 5
\* Number of tokens of the raw text of a malformed document.
MaxContentLen == 5
\* Number of tokens of the name of a file handed to analyze_file.
MaxNameLen == 3
\* Number of tokens of the content of a file handed to analyze_file.
MaxFileLen == 2

----------------------------------------------------------------------------
(* Strings.                                                                *)

Min(S) == CHOOSE x \in S : \A y \in S : x <= y
Max(S) == CHOOSE x \in S : \A y \in S : x >= y

\* str.startswith(prefix)
startswith(s, prefix) ==
    /\ Len(s) >= Len(prefix)
    /\ SubSeq(s, 1, Len(prefix)) = prefix

\* pattern in text
Contains(text, pattern) ==
    \E i \in 0..(Len(text) - Len(pattern)) :
        SubSeq(text, i + 1, i + Len(pattern)) = pattern

\* str.lower(), token by token
LowerToken(t) == IF t = "TEST" THEN "test" ELSE t
lower(s) == [i \in 1..Len(s) |-> LowerToken(s[i])]

\* Tokens whose text holds the directory separator; each of them ends with it.
SlashTokens == {"/", "./", "://"}

\* Tokens that are white space (\s), and those a file name of the fallback
\* pattern may hold ([^/\s#])
IsSpace(t) == t \in {" ", "\n"}
NameChar(t) == ~IsSpace(t) /\ t \notin SlashTokens /\ t # "#"
IsExt_yaml_only(t) == t = ".yaml"
IsExt(t) == t \in {".yaml", ".yml"}

\* '/' in path
HasSlash(s) == \E i \in 1..Len(s) : s[i] \in SlashTokens

\* os.path.basename(path): what follows the last '/'
basename(s) ==
    LET cuts == {i \in 1..Len(s) : s[i] \in SlashTokens}
    IN  IF cuts = {} THEN s ELSE SubSeq(s, Max(cuts) + 1, Len(s))

----------------------------------------------------------------------------
(* YAML values, as yaml.safe_load produces them.                           *)

Str(s)  == [t |-> "str", v |-> s]         \* a string
NonStr  == [t |-> "int", v |-> <<>>]      \* a truthy non-string scalar (5)
NoneVal == [t |-> "none", v |-> <<>>]     \* None (falsy)

\* Python truthiness of a scalar
Truthy(x) == \/ x.t = "int"
             \/ x.t = "str" /\ x.v # <<>>

\* A list item: a scalar, or a mapping with optional 'files' and 'path' keys.
\* filesIter: whether item['files'] can be iterated (FALSE: it is None).
ScalarItem(x) == [kind |-> "scalar", val |-> x, keys |-> {},
                  files |-> <<>>, filesIter |-> TRUE, path |-> NoneVal]
MapItem(ks, fl, it, p) == [kind |-> "map", val |-> NoneVal, keys |-> ks,
                           files |-> fl, filesIter |-> it, path |-> p]

----------------------------------------------------------------------------
(* KustomizationParser                                                     *)

FILE_REFERENCE_FIELDS_any_list ==
    << "resources", "patches", "patchesStrategicMerge", "patchesJson6902",
       "configurations", "crds", "openapi", "generators", "transformers",
       "components", "configMapGenerator", "secretGenerator", "images" >>
FILE_REFERENCE_FIELDS ==
    << "resources", "patches", "patchesStrategicMerge", "patchesJson6902",
       "configurations", "crds", "openapi", "generators", "transformers",
       "components", "configMapGenerator", "secretGenerator" >>

\* The running state of one extraction: the set built so far, and whether an
\* exception is propagating (nothing more is added once it is).
Ok(refs)     == [refs |-> refs, raised |-> FALSE]
Raised(refs) == [refs |-> refs, raised |-> TRUE]

_add_local_file_whole_path(path, st) ==
    IF st.raised THEN st
    ELSE IF ~Truthy(path) THEN st
    ELSE IF path.t # "str" THEN Raised(st.refs)
    ELSE IF startswith(path.v, <<"http">>) THEN st
    ELSE IF ~HasSlash(path.v) \/ startswith(path.v, <<"./">>)
         THEN Ok(st.refs \cup {path.v})
         ELSE st
_add_local_file(path, st) ==
    IF st.raised THEN st
    ELSE IF ~Truthy(path) THEN st
    ELSE IF path.t # "str" THEN Raised(st.refs)   \* no .startswith: AttributeError
    ELSE IF startswith(path.v, <<"http">>) THEN st
    ELSE IF ~HasSlash(path.v) \/ startswith(path.v, <<"./">>)
         THEN Ok(st.refs \cup {basename(path.v)})
         ELSE st

RECURSIVE AddFiles(_, _)
\* for file in item.get('files', []): if isinstance(file, str): add
AddFiles(files, st) ==
    IF files = <<>> \/ st.raised THEN st
    ELSE AddFiles(Tail(files),
                  IF Head(files).t = "str" THEN _add_local_file(Head(files), st)
                  ELSE st)

_extract_file_reference(item, st) ==
    IF st.raised THEN st
    ELSE IF item.kind = "scalar"
    THEN IF item.val.t = "str" /\ ~startswith(item.val.v, <<"http">>)
         THEN _add_local_file(item.val, st)
         ELSE st
    ELSE IF "files" \in item.keys
         THEN IF item.filesIter THEN AddFiles(item.files, st)
              ELSE Raised(st.refs)                 \* iterating None: TypeError
    ELSE IF "path" \in item.keys
         THEN _add_local_file(item.path, st)
         ELSE st

RECURSIVE ExtractAll(_, _)
\* for item in data[field]: self._extract_file_reference(item, referenced)
ExtractAll(items, st) ==
    IF items = <<>> \/ st.raised THEN st
    ELSE ExtractAll(Tail(items), _extract_file_reference(Head(items), st))

RECURSIVE PatchPaths(_, _)
\* for patch in data['patches']: dict with 'path' -> _add_local_file
PatchPaths(items, st) ==
    IF items = <<>> \/ st.raised THEN st
    ELSE PatchPaths(Tail(items),
                    IF Head(items).kind = "map" /\ "path" \in Head(items).keys
                    THEN _add_local_file(Head(items).path, st)
                    ELSE st)

\* A document is a mapping from keys to values; a value is a list of items or
\* a non-list scalar.  An empty list is falsy, as in Python.
HasKey(data, field) == field \in DOMAIN data /\ data[field].present

RECURSIVE FieldLoop(_, _, _)
FieldLoop(data, i, st) ==
    IF i > Len(FILE_REFERENCE_FIELDS) \/ st.raised THEN st
    ELSE LET field == FILE_REFERENCE_FIELDS[i]
         IN  FieldLoop(data, i + 1,
                 IF /\ HasKey(data, field)
                    /\ data[field].isList
                    /\ data[field].items # <<>>
                 THEN ExtractAll(data[field].items, st)
                 ELSE st)

_parse_yaml_references(data, st) ==
    LET st1 == FieldLoop(data, 1, st)
    IN  IF HasKey(data, "patches") /\ data["patches"].isList
        THEN PatchPaths(data["patches"].items, st1)
        ELSE st1

\* First index at or after p that is not white space (Len(c)+1: none)
SkipSpace(c, p) ==
    Min({q \in p..Len(c) + 1 : q = Len(c) + 1 \/ ~IsSpace(c[q])})

\* First index at or after p that is no file-name character
SkipName(c, p) ==
    Min({q \in p..Len(c) + 1 : q = Len(c) + 1 \/ ~NameChar(c[q])})

\* First index at or after p that is a line break (Len(c)+1: none)
LineEnd(c, p) ==
    Min({q \in p..Len(c) + 1 : q = Len(c) + 1 \/ c[q] = "\n"})

\* One attempt of ^\s*-\s*([^/\s#]+\.(yaml|yml))\s*(?:#.*)?$ (re.MULTILINE) at
\* index p of content c: [ok, name (group 1), end (index after the match)].
NoMatch == [ok |-> FALSE, name |-> <<>>, end |-> 0]
MatchAt(c, p) ==
    IF ~(p = 1 \/ c[p - 1] = "\n") THEN NoMatch              \* ^
    ELSE LET dash == SkipSpace(c, p)                         \* \s*
         IN  IF dash > Len(c) \/ c[dash] # "-" THEN NoMatch   \* -
    ELSE LET from == SkipSpace(c, dash + 1)                  \* \s*
             to   == SkipName(c, from)                       \* [^/\s#]+, greedy
         IN  \* the name ends with the extension and holds something before it
             IF ~(to - from >= 2 /\ IsExt(c[to - 1])) THEN NoMatch
    ELSE LET sp == SkipSpace(c, to)                          \* \s*, greedy
             breaks == {q \in to..(sp - 1) : c[q] = "\n"}
             name == SubSeq(c, from, to - 1)
         IN  IF sp > Len(c) THEN [ok |-> TRUE, name |-> name, end |-> sp]
             ELSE IF c[sp] = "#"                             \* (?:#.*)?$
                  THEN [ok |-> TRUE, name |-> name, end |-> LineEnd(c, sp)]
             \* $ fails at sp: \s* gives back to the last line break it took
             ELSE IF breaks # {}
                  THEN [ok |-> TRUE, name |-> name, end |-> Max(breaks)]
                  ELSE NoMatch

RECURSIVE FindAll(_, _, _)
\* pattern.finditer(content): leftmost matches, none overlapping
FindAll(c, p, acc) ==
    IF p > Len(c) THEN acc
    ELSE LET m == MatchAt(c, p)
         IN  IF m.ok THEN FindAll(c, IF m.end > p THEN m.end ELSE p + 1,
                                  acc \cup {m.name})
             ELSE FindAll(c, p + 1, acc)

_parse_regex_references(content, refs) == FindAll(content, 1, refs)

\* get_referenced_files: [refs, diag]; diag: an "Error reading ..." line went
\* to the diagnostic stream.
get_referenced_files(k) ==
    IF ~k.readable THEN [refs |-> {}, diag |-> TRUE]     \* read_text raised
    ELSE IF k.parse = "error"                            \* yaml.YAMLError
         THEN [refs |-> _parse_regex_references(k.content, {}), diag |-> FALSE]
    ELSE IF k.parse = "raise"                            \* any other exception
         THEN [refs |-> {}, diag |-> TRUE]
    ELSE IF k.parse = "dict"
         THEN LET st == _parse_yaml_references(k.data, Ok({}))
              IN  [refs |-> st.refs, diag |-> st.raised]
    ELSE [refs |-> {}, diag |-> FALSE]                   \* not a mapping

----------------------------------------------------------------------------
(* UnreferencedFileAnalyzer.analyze_file                                   *)

SAFE_TO_REMOVE == "safe_to_remove"
NEEDS_REVIEW == "needs_review"

SAFE_PATTERNS ==
    { <<"job", "-">>, <<"-", "job", ".yaml">>, <<"postgres-setup", ".yaml">>,
      <<"vault-secrets-init", ".yaml">>, <<"authelia-db", "-">>,
      <<"fix-pool-size", ".yaml">>, <<"job", ".yaml">> }

IMPORTANT_MARKERS_no_keep == { <<"IMPORTANT">>, <<"DO NOT DELETE">> }
IMPORTANT_MARKERS == { <<"IMPORTANT">>, <<"DO NOT DELETE">>, <<"KEEP">> }

TEST_PATTERNS_no_backups == { <<"test">>, <<"example">>, <<"sample">> }
TEST_PATTERNS == { <<"test">>, <<"example">>, <<"sample">>, <<".bak">>, <<".old">> }

AnalysisResult(filepath, status, reason) ==
    [filepath |-> filepath, status |-> status, reason |-> reason]

\* A path is the sequence of its components; str(path) joins them with '/'.
RECURSIVE PathStr(_)
PathStr(path) ==
    IF Len(path) = 0 THEN <<>>
    ELSE IF Len(path) = 1 THEN path[1]
    ELSE path[1] \o <<"/">> \o PathStr(Tail(path))

\* Path.name: the last component
PathName(path) == path[Len(path)]

analyze_file_unguarded(filepath, readable, content) ==
    LET text == IF readable THEN content ELSE <<>>
    IN  IF \E marker \in IMPORTANT_MARKERS : Contains(text, marker)
        THEN AnalysisResult(filepath, NEEDS_REVIEW, "Contains important markers")
        ELSE IF \E pattern \in SAFE_PATTERNS : Contains(PathStr(filepath), pattern)
        THEN AnalysisResult(filepath, SAFE_TO_REMOVE, "Matches old job pattern")
        ELSE AnalysisResult(filepath, NEEDS_REVIEW,
                            "Unknown file - manual review needed")

\* filepath: the path; readable: whether read_text succeeds; content: what it
\* then returns.
analyze_file(filepath, readable, content) ==
    IF ~readable
    THEN AnalysisResult(filepath, NEEDS_REVIEW, "Error reading file")
    ELSE IF \E marker \in IMPORTANT_MARKERS : Contains(content, marker)
    THEN AnalysisResult(filepath, NEEDS_REVIEW, "Contains important markers")
    ELSE IF /\ Contains(content, <<"kind: Job">>)
            /\ \/ Contains(PathName(filepath), <<"job", "-">>)
               \/ Contains(PathName(filepath), <<"-", "job">>)
    THEN AnalysisResult(filepath, SAFE_TO_REMOVE,
                        "Old Job file (likely replaced by workflow)")
    ELSE IF \E pattern \in SAFE_PATTERNS : Contains(PathStr(filepath), pattern)
    THEN AnalysisResult(filepath, SAFE_TO_REMOVE, "Matches old job pattern")
    ELSE IF \E pattern \in TEST_PATTERNS :
               Contains(lower(PathName(filepath)), pattern)
    THEN AnalysisResult(filepath, SAFE_TO_REMOVE, "Test/example/backup file")
    ELSE AnalysisResult(filepath, NEEDS_REVIEW,
                        "Unknown file - manual review needed")

----------------------------------------------------------------------------
(* Paths and the file system.                                              *)

\* The project root, and the directory main scans
project_root == << <<"homelab">> >>
manifests_dir == Append(project_root, <<"manifests">>)

KUSTOMIZATION == <<"kustomization", ".yaml">>

\* Rank of a token in string order ('-' < '.' < letters).  No token is a
\* prefix of another, so comparing token by token compares the texts.
TokenRank ==
    [ t \in {"-", ".txt", ".yaml", ".yml", "a", "b", "homelab", "job",
             "kustomization", "manifests", "svc"} |->
      CASE t = "-" -> 1 [] t = ".txt" -> 2 [] t = ".yaml" -> 3 [] t = ".yml" -> 4
        [] t = "a" -> 5 [] t = "b" -> 6 [] t = "homelab" -> 7 [] t = "job" -> 8
        [] t = "kustomization" -> 9 [] t = "manifests" -> 10 [] t = "svc" -> 11 ]

RECURSIVE StrLess(_, _)
\* a < b for two strings
StrLess(a, b) ==
    IF b = <<>> THEN FALSE
    ELSE IF a = <<>> THEN TRUE
    ELSE IF Head(a) = Head(b) THEN StrLess(Tail(a), Tail(b))
    ELSE TokenRank[Head(a)] < TokenRank[Head(b)]

RECURSIVE PathLess(_, _)
\* PurePath.__lt__: the tuples of components are compared
PathLess(p, q) ==
    IF q = <<>> THEN FALSE
    ELSE IF p = <<>> THEN TRUE
    ELSE IF Head(p) = Head(q) THEN PathLess(Tail(p), Tail(q))
    ELSE StrLess(Head(p), Head(q))

RECURSIVE Insert(_, _)
Insert(x, sortedPaths) ==
    IF sortedPaths = <<>> THEN <<x>>
    ELSE IF PathLess(x, Head(sortedPaths)) THEN <<x>> \o sortedPaths
    ELSE <<Head(sortedPaths)>> \o Insert(x, Tail(sortedPaths))

RECURSIVE sorted(_)
\* sorted(list of Path)
sorted(paths) ==
    IF paths = <<>> THEN <<>> ELSE Insert(Head(paths), sorted(Tail(paths)))

\* Path.suffix: the last dot-piece of the name, if the name has more before it
suffix(name) ==
    IF Len(name) >= 2 /\ name[Len(name)] \in {".yaml", ".yml", ".txt", ".bak"}
    THEN name[Len(name)] ELSE ""

\* path.relative_to(project_root)
relative_to_root(path) == SubSeq(path, Len(project_root) + 1, Len(path))

\* The directories below manifests/ (as paths relative to it), and whether
\* the first is the parent of the second
DirPaths == { <<>>, << <<"svc">> >> }
IsChild(d, e) == Len(e) = Len(d) + 1 /\ SubSeq(e, 1, Len(d)) = d

\* The files a directory may hold besides kustomization.yaml
JOB_A_YAML == <<"job", "-", "a", ".yaml">>
B_YML == <<"b", ".yml">>
B_TXT == <<"b", ".txt">>
FileNames == {JOB_A_YAML, B_YML, B_TXT}
\* What each holds
FileContent(name) ==
    IF name = JOB_A_YAML THEN <<"kind: Job">>
    ELSE IF name = B_YML THEN <<"KEEP">>
    ELSE <<>>

\* A directory entry: [name, is_file (a regular file), readable]
Entry(name, isFile, readable) ==
    [name |-> name, is_file |-> isFile, readable |-> readable]

\* The entries of directory d.  fs.dirs[d].kust is "none" or the document
\* stored as kustomization.yaml; fs.dirs[d].files[name] is "absent", "file",
\* "unreadable" (a regular file that cannot be read) or "dir".
Entries(d) ==
    { Entry(n, fs.dirs[d].files[n] # "dir", fs.dirs[d].files[n] = "file")
      : n \in {m \in FileNames : fs.dirs[d].files[m] # "absent"} }
    \cup (IF fs.dirs[d].kust.present
          THEN {Entry(KUSTOMIZATION, TRUE, fs.dirs[d].kust.doc.readable)} ELSE {})
    \cup { Entry(e[Len(e)], FALSE, FALSE) : e \in {x \in DirPaths : IsChild(d, x)} }

\* The sequences that list set S once each
Orderings(S) ==
    { o \in [1..Cardinality(S) -> S] : \A i, j \in 1..Cardinality(S) : o[i] = o[j] => i = j }

RECURSIVE ByName(_)
\* The entries of set S by ascending name
ByName(S) ==
    IF S = {} THEN <<>>
    ELSE LET first == CHOOSE e \in S : \A o \in S : o = e \/ StrLess(e.name, o.name)
         IN  <<first>> \o ByName(S \ {first})

Reverse(q) == [i \in 1..Len(q) |-> q[Len(q) + 1 - i]]

\* directory.iterdir(): the entries in the order the file system gives them,
\* which is by name, ascending or descending
iterdir(d, descending) ==
    IF descending THEN Reverse(ByName(Entries(d))) ELSE ByName(Entries(d))

\* directory / name exists
Exists(d, name) == \E e \in Entries(d) : e.name = name

----------------------------------------------------------------------------
(* UnreferencedFileAnalyzer: the finder                                    *)

RECURSIVE YamlFiles(_)
\* the names of a listing that are regular .yaml/.yml files, in its order
YamlFiles(listing) ==
    IF listing = <<>> THEN <<>>
    ELSE LET file == Head(listing)
         IN  (IF /\ file.is_file
                 /\ suffix(file.name) \in {".yaml", ".yml"}
                 /\ file.name # KUSTOMIZATION
              THEN <<file.name>> ELSE <<>>) \o YamlFiles(Tail(listing))

RECURSIVE Unreferenced(_, _, _)
\* for filename in yaml_files: if filename not in referenced: append
Unreferenced(directory, yaml_files, refs) ==
    IF yaml_files = <<>> THEN <<>>
    ELSE (IF Head(yaml_files) \notin refs
          THEN << manifests_dir \o directory \o <<Head(yaml_files)>> >> ELSE <<>>)
         \o Unreferenced(directory, Tail(yaml_files), refs)

\* directory: relative to manifests/; listing: what iterdir gives.
\* [files: the list returned, diag: the parser printed a diagnostic]
_find_unreferenced_in_directory(directory, listing) ==
    IF ~Exists(directory, KUSTOMIZATION) THEN [files |-> <<>>, diag |-> FALSE]
    ELSE LET r == get_referenced_files(fs.dirs[directory].kust.doc)
         IN  [files |-> Unreferenced(directory, YamlFiles(listing), r.refs),
              diag |-> r.diag]

\* manifests_dir.rglob("kustomization.yaml"): the directories that hold one
KustomizationDirs ==
    IF fs.manifests THEN {d \in DirPaths : Exists(d, KUSTOMIZATION)} ELSE {}

RECURSIVE FindLoop(_, _)
\* walk: the directories in the order rglob yields them; listings: a listing
\* for each.  [files: all_unreferenced, diags: the diagnostics, in order]
FindLoop(walk, listings) ==
    IF walk = <<>> THEN [files |-> <<>>, diags |-> <<>>]
    ELSE LET one  == _find_unreferenced_in_directory(Head(walk), listings[Head(walk)])
             rest == FindLoop(Tail(walk), listings)
         IN  [files |-> one.files \o rest.files,
              diags |-> (IF one.diag
                         THEN << manifests_dir \o Head(walk) \o <<KUSTOMIZATION>> >>
                         ELSE <<>>) \o rest.diags]

find_all_unreferenced_unsorted(walk, listings) == FindLoop(walk, listings)
find_all_unreferenced(walk, listings) ==
    LET all == FindLoop(walk, listings)
    IN  [files |-> sorted(all.files), diags |-> all.diags]

----------------------------------------------------------------------------
(* The documents the parser is run on.                                     *)

\* Tokens of a reference string of a structured document
RefTokens == {"http", "s", "://", "./", "/"}
\* Tokens of the raw text of a malformed document
ContentTokens == {"-", " ", "\n", "#", "/", "a", ".yaml", ".yml",
                  "resources:", "images:"}
\* A structured document may hold the keys resources, patches and images
\* ("images" is no reference field).

StringsOfLen(n) == [1..n -> RefTokens]

ItemsOfCost(n) ==
    UNION { { ScalarItem(Str(s)),
              MapItem({"path"}, <<>>, TRUE, Str(s)),
              MapItem({"files"}, <<Str(s)>>, TRUE, NoneVal),
              MapItem({"files", "path"}, <<>>, TRUE, Str(s)) }
            : s \in StringsOfLen(n - 1) }
    \cup (IF n = 2
          THEN { ScalarItem(NonStr),
                 MapItem({"path"}, <<>>, TRUE, NonStr),
                 MapItem({"files"}, <<NonStr>>, TRUE, NoneVal),
                 MapItem({"files"}, <<>>, FALSE, NoneVal),
                 MapItem({}, <<>>, TRUE, NoneVal) }
          ELSE {})

Absent     == [present |-> FALSE, isList |-> FALSE, items |-> <<>>]
ScalarVal  == [present |-> TRUE, isList |-> FALSE, items |-> <<>>]
ListVal(l) == [present |-> TRUE, isList |-> TRUE, items |-> l]

\* The lists of each size (a list of size 1 is empty)
ListsOfCost[n \in 1..MaxDocSize] ==
    IF n = 1 THEN {<<>>}
    ELSE UNION { { <<i>> \o l : i \in ItemsOfCost(c), l \in ListsOfCost[n - c] }
                 : c \in 1..(n - 1) }

\* The values of each size a key may hold
ValuesOfCost[n \in 0..MaxDocSize] ==
    IF n = 0 THEN {Absent}
    ELSE { ListVal(l) : l \in ListsOfCost[n] }
         \cup (IF n = 1 THEN {ScalarVal} ELSE {})

EmptyData == [k \in {"resources", "patches", "images"} |-> Absent]

Doc(r, p, d, c) == [readable |-> r, parse |-> p, data |-> d, content |-> c]

\* read_text raises (no permission, a directory, not UTF-8); safe_load raises
\* something that is no YAMLError; the document is no mapping
OtherDocs == { Doc(FALSE, "none", EmptyData, <<>>),
               Doc(TRUE, "raise", EmptyData, <<>>),
               Doc(TRUE, "other", EmptyData, <<>>) }
\* safe_load raises YAMLError: the raw text decides
MalformedDoc(c) == Doc(TRUE, "error", EmptyData, c)
\* safe_load returns a mapping: the raw text is not looked at again
MappingDoc(v1, v2, v3) ==
    Doc(TRUE, "dict", [resources |-> v1, patches |-> v2, images |-> v3], <<>>)

----------------------------------------------------------------------------
(* ParserSpec: get_referenced_files applied to one document.               *)

MainIdle ==
    /\ fs = [manifests |-> FALSE, dirs |-> <<>>]
    /\ pc = "idle"
    /\ stdout = <<>>
    /\ stderr = <<>>
    /\ exit_code = -1
    /\ unreferenced_files = <<>>
    /\ results = <<>>
    /\ scanned = FALSE

ParserIdle ==
    /\ kustomization = Doc(FALSE, "none", EmptyData, <<>>)
    /\ referenced = {}
    /\ parser_stderr = FALSE
    /\ ppc = "idle"

AnalyzerIdle ==
    /\ candidate = [filepath |-> <<>>, readable |-> FALSE, content |-> <<>>]
    /\ analysis = [filepath |-> <<>>, status |-> "none", reason |-> ""]
    /\ apc = "idle"

ParserInit ==
    /\ AnalyzerIdle
    /\ MainIdle
    /\ \/ kustomization \in OtherDocs
       \/ \E n \in 0..MaxContentLen : \E c \in [1..n -> ContentTokens] :
             kustomization = MalformedDoc(c)
       \/ \E c1 \in 0..MaxDocSize : \E c2 \in 0..(MaxDocSize - c1) :
          \E c3 \in 0..(MaxDocSize - c1 - c2) :
          \E v1 \in ValuesOfCost[c1], v2 \in ValuesOfCost[c2], v3 \in ValuesOfCost[c3] :
             kustomization = MappingDoc(v1, v2, v3)
    /\ referenced = {}
    /\ parser_stderr = FALSE
    /\ ppc = "start"

GetReferencedFiles ==
    /\ ppc = "start"
    /\ LET r == get_referenced_files(kustomization)
       IN  /\ referenced' = r.refs
           /\ parser_stderr' = r.diag
    /\ ppc' = "done"
    /\ UNCHANGED <<kustomization, avars, mvars>>

ParserNext == GetReferencedFiles

ParserSpec == ParserInit /\ [][ParserNext]_vars

----------------------------------------------------------------------------
(* AnalyzerSpec: analyze_file applied to one file.                         *)

\* Tokens of a file name, and of a file's content
NameTokens == {"job", "-", "test", "TEST", ".bak", ".yaml"}
FileTokens == {"IMPORTANT", "DO NOT DELETE", "KEEP", "kind: Job", "keep"}
\* The directories the file may lie in
CandidateDirs == { <<<<"homelab">>, <<"manifests">>, <<"app">>>>,
                   <<<<"homelab">>, <<"manifests">>, <<"cron", "job", "-", "s">>>> }

NoAnalysis == AnalysisResult(<<>>, "none", "")

AnalyzerInit ==
    /\ ParserIdle
    /\ MainIdle
    /\ \E dir \in CandidateDirs :
       \E n \in 1..MaxNameLen : \E name \in [1..n -> NameTokens] :
       \E m \in 0..MaxFileLen : \E content \in [1..m -> FileTokens] :
       \E readable \in BOOLEAN :
          candidate = [filepath |-> Append(dir, name), readable |-> readable,
                       content |-> content]
    /\ analysis = NoAnalysis
    /\ apc = "start"

AnalyzeFile ==
    /\ apc = "start"
    /\ analysis' = analyze_file(candidate.filepath, candidate.readable,
                                candidate.content)
    /\ apc' = "done"
    /\ UNCHANGED <<candidate, pvars, mvars>>

AnalyzerNext == AnalyzeFile

AnalyzerSpec == AnalyzerInit /\ [][AnalyzerNext]_vars

----------------------------------------------------------------------------
(* main                                                                    *)

\* A line of output: what it is, the path it shows, its text, its count
Line(what, path, text, n) == [line |-> what, path |-> path, text |-> text, n |-> n]

Select(rs, status) == SelectSeq(rs, LAMBDA r : r.status = status)

\* The per-file lines: a status line, a reason line, an empty line
RECURSIVE FileLines(_)
FileLines(rs) ==
    IF rs = <<>> THEN <<>>
    ELSE << Line(IF Head(rs).status = SAFE_TO_REMOVE
                 THEN "SAFE TO REMOVE" ELSE "NEEDS REVIEW",
                 relative_to_root(Head(rs).filepath), "", 0),
            Line("Reason", <<>>, Head(rs).reason, 0),
            Line("", <<>>, "", 0) >> \o FileLines(Tail(rs))

PathLines(rs) ==
    [i \in 1..Len(rs) |-> Line("path", relative_to_root(rs[i].filepath), "", 0)]

\* What main prints once every file is analyzed
DisplayLines(rs) ==
    LET safe_to_remove == Select(rs, SAFE_TO_REMOVE)
        needs_review   == Select(rs, NEEDS_REVIEW)
    IN  << Line("=== Unreferenced YAML Files Analysis ===", <<>>, "", 0) >>
        \o FileLines(rs)
        \o << Line("Summary:", <<>>, "", 0),
              Line("- Safe to remove", <<>>, "", Len(safe_to_remove)),
              Line("- Needs review", <<>>, "", Len(needs_review)) >>
        \o (IF safe_to_remove # <<>>
            THEN << Line("Files safe to remove:", <<>>, "", 0) >>
                 \o PathLines(safe_to_remove)
            ELSE <<>>)
        \o (IF needs_review # <<>>
            THEN << Line("Files needing review:", <<>>, "", 0) >>
                 \o PathLines(needs_review)
            ELSE <<>>)
        \o (IF safe_to_remove # <<>>
            THEN << Line("To remove safe files, run:", <<>>, "", 0),
                    Line("rm", <<>>, "", Len(safe_to_remove)) >>
            ELSE <<>>)

\* What main prints around the scan
ScanLines_with_summary(found) ==
    << Line("Scanning for unreferenced YAML files...", <<>>, "", 0) >>
    \o (IF found = <<>>
        THEN << Line("No unreferenced files found!", <<>>, "", 0),
                Line("Summary:", <<>>, "", 0) >>
        ELSE <<>>)
ScanLines(found) ==
    << Line("Scanning for unreferenced YAML files...", <<>>, "", 0) >>
    \o (IF found = <<>>
        THEN << Line("No unreferenced files found!", <<>>, "", 0) >>
        ELSE <<>>)

\* manifests_dir.exists()
manifests_dir_exists_unchecked == TRUE
manifests_dir_exists == fs.manifests

\* The state of a file of the tree
FileState(filepath) ==
    LET rel == SubSeq(filepath, Len(manifests_dir) + 1, Len(filepath) - 1)
    IN  fs.dirs[rel].files[PathName(filepath)]

CheckManifestsDir ==
    /\ pc = "start"
    /\ IF ~manifests_dir_exists
       THEN /\ stderr' = Append(stderr,
                    Line("Error: manifests directory not found at", manifests_dir, "", 0))
            /\ exit_code' = 1
            /\ pc' = "exited"
       ELSE /\ pc' = "scan"
            /\ UNCHANGED <<stderr, exit_code>>
    /\ UNCHANGED <<fs, stdout, unreferenced_files, results, scanned, pvars, avars>>

ScanForUnreferenced ==
    /\ pc = "scan"
    /\ \E walk \in Orderings(KustomizationDirs) :
       \E descending \in BOOLEAN :
          /\ LET listings == [d \in DirPaths |-> iterdir(d, descending)]
                 found == find_all_unreferenced(walk, listings)
             IN  /\ unreferenced_files' = found.files
                 /\ stderr' = stderr \o
                        [i \in 1..Len(found.diags) |->
                            Line("Error reading", found.diags[i], "", 0)]
                 /\ stdout' = stdout \o ScanLines(found.files)
                 /\ IF found.files = <<>>
                    THEN pc' = "done" /\ exit_code' = 0
                    ELSE pc' = "analyze" /\ UNCHANGED exit_code
    /\ scanned' = TRUE
    /\ UNCHANGED <<fs, results, pvars, avars>>

AnalyzeNextFile ==
    /\ pc = "analyze"
    /\ LET filepath == unreferenced_files[Len(results) + 1]
       IN  results' = Append(results,
               analyze_file(filepath, FileState(filepath) = "file",
                            FileContent(PathName(filepath))))
    /\ pc' = IF Len(results) + 1 = Len(unreferenced_files) THEN "display" ELSE "analyze"
    /\ UNCHANGED <<fs, stdout, stderr, exit_code, unreferenced_files, scanned,
                   pvars, avars>>

DisplayResults ==
    /\ pc = "display"
    /\ stdout' = stdout \o DisplayLines(results)
    /\ exit_code' = 0
    /\ pc' = "done"
    /\ UNCHANGED <<fs, stderr, unreferenced_files, results, scanned, pvars, avars>>

\* The documents a kustomization.yaml of the tree may be
TreeDocs ==
    { Doc(FALSE, "none", EmptyData, <<>>),
      MalformedDoc(<<"resources:", "\n", " ", "-", " ", "b", ".yml">>),
      MappingDoc(ListVal(<<ScalarItem(Str(<<"./", "job", "-", "a", ".yaml">>))>>),
                 Absent, Absent),
      MappingDoc(ListVal(<<ScalarItem(Str(<<"http", "://", "s", "/", "b", ".yml">>))>>),
                 Absent, ListVal(<<ScalarItem(Str(<<"job", "-", "a", ".yaml">>))>>)) }

Kusts == { [present |-> FALSE, doc |-> Doc(FALSE, "none", EmptyData, <<>>)] }
         \cup { [present |-> TRUE, doc |-> doc] : doc \in TreeDocs }

FileStates == [FileNames -> {"absent", "file", "unreadable", "dir"}]

Init ==
    /\ ParserIdle
    /\ AnalyzerIdle
    /\ \E m \in BOOLEAN :
       \E dirs \in [DirPaths -> [kust : Kusts, files : FileStates]] :
          /\ \A d \in DirPaths : dirs[d].files[B_TXT] \in {"absent", "file"}
          /\ ~m => \A d \in DirPaths :
                     /\ ~dirs[d].kust.present
                     /\ \A n \in FileNames : dirs[d].files[n] = "absent"
          /\ fs = [manifests |-> m, dirs |-> dirs]
    /\ pc = "start"
    /\ stdout = <<>>
    /\ stderr = <<>>
    /\ exit_code = -1
    /\ unreferenced_files = <<>>
    /\ results = <<>>
    /\ scanned = FALSE

Next ==
    \/ CheckManifestsDir
    \/ ScanForUnreferenced
    \/ AnalyzeNextFile
    \/ DisplayResults

Spec == Init /\ [][Next]_vars

----------------------------------------------------------------------------
(* Properties of the reference extractor (checked under ParserSpec).       *)

\* A string that begins with an HTTP(S) scheme
IsHttpUrl(s) == \/ startswith(s, <<"http", "://">>)
                \/ startswith(s, <<"http", "s", "://">>)

\* The strings an item holds: itself, its 'files' entries, its 'path'
ItemStrings(item) ==
    (IF item.kind = "scalar" /\ item.val.t = "str" THEN {item.val.v} ELSE {})
    \cup (IF "files" \in item.keys
          THEN {item.files[i].v : i \in {j \in 1..Len(item.files) : item.files[j].t = "str"}}
          ELSE {})
    \cup (IF "path" \in item.keys /\ item.path.t = "str" THEN {item.path.v} ELSE {})

\* The strings that appear in the recognized reference fields of a mapping
FieldStrings(data) ==
    UNION { UNION { ItemStrings(data[f].items[i]) : i \in 1..Len(data[f].items) }
            : f \in {g \in DOMAIN data :
                        /\ \E i \in 1..12 : g =
                             << "resources", "patches", "patchesStrategicMerge",
                                "patchesJson6902", "configurations", "crds",
                                "openapi", "generators", "transformers",
                                "components", "configMapGenerator",
                                "secretGenerator" >>[i]
                        /\ data[g].present /\ data[g].isList} }

\* The lines of a text, each as (first index, index after its last token)
LineStarts(c) == {p \in 1..Len(c) + 1 : p = 1 \/ c[p - 1] = "\n"}

\* Tokens from..to of c are a file name on a list-item line "- <name>.yaml" or
\* "- <name>.yml" (a dash, white space, the name), optionally indented and
\* optionally followed by a comment; a file name holds no white space, no '/'
\* and no '#'.
IsListItemName(c, from, to) ==
    \E p \in LineStarts(c) : \E d \in p..(from - 2) :
        /\ to <= Len(c)
        /\ c[d] = "-"
        /\ from > d + 1
        /\ \A q \in p..(d - 1) : c[q] = " "
        /\ \A q \in (d + 1)..(from - 1) : c[q] = " "
        /\ to > from
        /\ \A q \in from..to : NameChar(c[q])
        /\ c[to] \in {".yaml", ".yml"}
        /\ \E h \in (to + 1)..(Len(c) + 1) :
              /\ \A q \in (to + 1)..(h - 1) : c[q] = " "
              /\ h = Len(c) + 1 \/ c[h] = "#" \/ c[h] = "\n"

\* Tokens from..to of c lie under a recognized reference field: the nearest
\* key before them is one.
UnderReferenceField(c, from) ==
    \E k \in 1..(from - 1) :
        /\ c[k] = "resources:"
        /\ \A q \in (k + 1)..(from - 1) : c[q] # "images:"

Occurs(c, name) ==
    \E from \in 1..Len(c) : \E to \in from..Len(c) : SubSeq(c, from, to) = name

C5_LocalBasenames ==
    ppc = "done" => \A name \in referenced : ~HasSlash(name) /\ ~IsHttpUrl(name)

C5_Witness ==
    /\ ppc = "done"
    /\ kustomization.parse = "dict"
    /\ kustomization.data.resources.items = <<ScalarItem(Str(<<"./", "./", "s">>))>>
    /\ referenced = {<<"s">>}

\* C6: when structured parsing fails, get_referenced_files reports no error
\* and returns every file name that stands on a list-item line.
C6_FallbackFindsListItems ==
    (ppc = "done" /\ kustomization.parse = "error") =>
        /\ ~parser_stderr
        /\ \A from \in 1..Len(kustomization.content) :
           \A to \in from..Len(kustomization.content) :
              IsListItemName(kustomization.content, from, to)
                  => SubSeq(kustomization.content, from, to) \in referenced

C6_Witness ==
    /\ ppc = "done"
    /\ kustomization.parse = "error"
    /\ kustomization.content = <<" ", "-", " ", "a", ".yml">>
    /\ referenced = {<<"a", ".yml">>}

\* C10 as stated: on the structured path, every non-empty plain-string element
\* of a recognized field's list that does not begin with http:// or https://
\* and is a bare file name or begins with './' has its basename in the result.
C10_LocalStringsAreReferenced ==
    (ppc = "done" /\ kustomization.parse = "dict") =>
        \A f \in {"resources", "patches"} :
            LET v == kustomization.data[f]
            IN  (v.present /\ v.isList) =>
                \A i \in 1..Len(v.items) :
                    LET item == v.items[i]
                    IN  ( /\ item.kind = "scalar"
                          /\ item.val.t = "str"
                          /\ item.val.v # <<>>
                          /\ ~IsHttpUrl(item.val.v)
                          /\ ~HasSlash(item.val.v) \/ startswith(item.val.v, <<"./">>) )
                        => basename(item.val.v) \in referenced

----------------------------------------------------------------------------
(* Properties of the classifier (checked under AnalyzerSpec).              *)

HasMarker(content) ==
    \/ Contains(content, <<"IMPORTANT">>)
    \/ Contains(content, <<"DO NOT DELETE">>)
    \/ Contains(content, <<"KEEP">>)

\* Rule 2: a Job whose file name follows the job naming convention
IsOldJob(c) ==
    /\ Contains(c.content, <<"kind: Job">>)
    /\ \/ Contains(PathName(c.filepath), <<"job", "-">>)
       \/ Contains(PathName(c.filepath), <<"-", "job">>)

\* Matches a legacy safe pattern (rule 3)
IsLegacy(c) ==
    \E pattern \in { <<"job", "-">>, <<"-", "job", ".yaml">>, <<"job", ".yaml">> } :
        Contains(PathStr(c.filepath), pattern)

HasTestName(c) ==
    \E pattern \in { <<"test">>, <<"example">>, <<"sample">>, <<".bak">>, <<".old">> } :
        Contains(PathName(c.filepath), pattern)

\* C2: a file whose content holds IMPORTANT, DO NOT DELETE or KEEP is
\* classified needs-review, whatever other rule matches.
C2_MarkersDominate ==
    (apc = "done" /\ HasMarker(candidate.content)) => analysis.status = NEEDS_REVIEW

C2_Witness ==
    /\ apc = "done"
    /\ candidate.readable
    /\ Contains(candidate.content, <<"KEEP">>)
    /\ IsOldJob(candidate) /\ IsLegacy(candidate) /\ HasTestName(candidate)
    /\ analysis.status = NEEDS_REVIEW
    /\ analysis.reason = "Contains important markers"

\* C3 as stated: a file whose name holds test, example, sample, .bak or .old
\* and that matches neither the important markers nor the Job pattern is
\* classified safe-to-remove.
C3_TestFilesSafe ==
    (apc = "done" /\ HasTestName(candidate)
        /\ ~HasMarker(candidate.content) /\ ~IsOldJob(candidate))
    => analysis.status = SAFE_TO_REMOVE

\* C3 amended: ... provided the file's content can be read.
C3_ReadableTestFilesSafe ==
    (apc = "done" /\ candidate.readable /\ HasTestName(candidate)
        /\ ~HasMarker(candidate.content) /\ ~IsOldJob(candidate))
    => analysis.status = SAFE_TO_REMOVE

C3_Witness ==
    /\ apc = "done"
    /\ candidate.readable
    /\ HasTestName(candidate)
    /\ ~HasMarker(candidate.content) /\ ~IsOldJob(candidate) /\ ~IsLegacy(candidate)
    /\ analysis.status = SAFE_TO_REMOVE
    /\ analysis.reason = "Test/example/backup file"

----------------------------------------------------------------------------
(* Properties of the finder and of main (checked under Spec).              *)

SVC == << <<"svc">> >>
Elements(q) == {q[i] : i \in 1..Len(q)}
Tags(lines) == [i \in 1..Len(lines) |-> lines[i].line]

IsRegularFile(d, n) == fs.dirs[d].files[n] \in {"file", "unreadable"}
IsYamlName(n) == n[Len(n)] \in {".yaml", ".yml"}

\* The paths d/f: d holds a kustomization.yaml, f is a regular .yaml/.yml file
\* directly in d, not kustomization.yaml, and not in d's reference set
ExpectedUnreferenced ==
    { manifests_dir \o x[1] \o <<x[2]>> :
        x \in { y \in DirPaths \X FileNames :
                  /\ fs.manifests
                  /\ fs.dirs[y[1]].kust.present
                  /\ IsRegularFile(y[1], y[2])
                  /\ IsYamlName(y[2])
                  /\ y[2] # KUSTOMIZATION
                  /\ y[2] \notin get_referenced_files(fs.dirs[y[1]].kust.doc).refs } }

\* C1: find_all_unreferenced returns exactly the expected paths, each once,
\* in ascending (lexicographic, component by component) order.
C1_ExactlyTheUnreferencedSorted ==
    scanned =>
        /\ Elements(unreferenced_files) = ExpectedUnreferenced
        /\ \A i, j \in 1..Len(unreferenced_files) :
              i < j => PathLess(unreferenced_files[i], unreferenced_files[j])

C1_Witness ==
    /\ scanned
    /\ Len(unreferenced_files) = 2
    /\ fs.dirs[<<>>].kust.present
    /\ fs.dirs[<<>>].kust.doc.parse = "dict"
    /\ fs.dirs[<<>>].files[JOB_A_YAML] = "file"
    /\ JOB_A_YAML \in get_referenced_files(fs.dirs[<<>>].kust.doc).refs
    /\ fs.dirs[<<>>].files[B_YML] = "dir"
    /\ fs.dirs[<<>>].files[B_TXT] = "file"
    /\ fs.dirs[SVC].kust.present

\* C7 as stated: with manifests/ present and nothing unreferenced, standard
\* output is exactly the "no unreferenced files found" message.
C7_OnlyNoneFoundMessage ==
    (pc = "done" /\ fs.manifests /\ unreferenced_files = <<>>)
    => Tags(stdout) = << "No unreferenced files found!" >>

\* C7 amended: with manifests/ present and nothing unreferenced, standard
\* output is the "Scanning ..." progress line followed by the "no unreferenced
\* files found" message, and nothing else: no per-file analysis, summary,
\* file lists or removal command.
C7_ScanningThenNoneFound ==
    (pc = "done" /\ fs.manifests /\ unreferenced_files = <<>>)
    => Tags(stdout) = << "Scanning for unreferenced YAML files...",
                         "No unreferenced files found!" >>

C7_Witness ==
    /\ pc = "done"
    /\ fs.manifests
    /\ unreferenced_files = <<>>
    /\ fs.dirs[<<>>].kust.present
    /\ fs.dirs[<<>>].files[JOB_A_YAML] = "file"

\* C8: without manifests/, main exits non-zero after a diagnostic that names
\* the missing path; find_all_unreferenced is never called and nothing is
\* written to standard output.
C8_MissingManifestsIsFatal ==
    ~fs.manifests =>
        /\ pc \in {"start", "exited"}
        /\ ~scanned
        /\ stdout = <<>>
        /\ unreferenced_files = <<>> /\ results = <<>>
        /\ pc = "exited" =>
              /\ exit_code > 0
              /\ Len(stderr) = 1
              /\ stderr[1].path = manifests_dir

C8_Witness ==
    /\ ~fs.manifests
    /\ pc = "exited"
    /\ exit_code = 1

UnreadableReported(i) ==
    FileState(unreferenced_files[i]) = "unreadable" =>
        /\ results[i].status = NEEDS_REVIEW
        /\ results[i].reason = "Error reading file"

====
